---- MODULE Spec2Model ----
(* Transfer confirmation orchestrator of the NFT bridge wizard               *)
(* (ConfirmationStep.svelte): the approve() and bridge() flows, the          *)
(* confirmation handler handleBridgeTxHash and the collaborators they await. *)
(* Every await of the source is a suspension point: one action runs the code *)
(* from one suspension point to the next.                                    *)
EXTENDS Integers, Sequences, FiniteSets, TLC

\* ---------------------------------------------------------------- bounds
MaxCalls == 2
MaxEnvChanges == 1

\* ---------------------------------------------------------------- values
\* $network?.id / $destNetwork?.id are falsy when the store holds no network.
NoChain == 0
ChainIds == {1, 2}
\* an absent entry of token.addresses, an absent account address
NoAddress == "undefined"

Calls == 1..MaxCalls

\* viem getAddress: the checksummed form of a well-formed address
Checksum(a) == CASE a = "0xaa" -> "0xAA"
                 [] a = "0xAA" -> "0xAA"
                 [] a = "0xbb" -> "0xBB"
                 [] a = "0xBB" -> "0xBB"
                 [] OTHER -> NoAddress
isAddress(a) == a \in {"0xaa", "0xAA", "0xbb", "0xBB"}
\* viem getAddress throws InvalidAddressError on anything but an address
getAddress(a) == IF isAddress(a) THEN [ok |-> TRUE, value |-> Checksum(a)]
                 ELSE [ok |-> FALSE, value |-> NoAddress]

\* $selectedToken: null, or a token with its type and per-chain address map
NoToken == [type |-> "none", addresses |-> [c \in ChainIds |-> NoAddress]]
Token721 == [type |-> "ERC721", addresses |-> (1 :> "0xaa" @@ 2 :> NoAddress)]
Token1155 == [type |-> "ERC1155", addresses |-> (1 :> "0xBB" @@ 2 :> NoAddress)]
Tokens == {Token721, Token1155}

\* $account: undefined, an account without address (disconnected), or connected
NoAccount == [defined |-> FALSE, address |-> NoAddress]
Disconnected == [defined |-> TRUE, address |-> NoAddress]
Accounts == {NoAccount, Disconnected,
             [defined |-> TRUE, address |-> "0xU1"],
             [defined |-> TRUE, address |-> "0xU2"]}

\* $selectedNFTs: null, or a sequence of NFTs (here of their token ids)
NullNFTs == [isNull |-> TRUE, ids |-> <<>>]
EmptyNFTs == [isNull |-> FALSE, ids |-> <<>>]
OneNFT == [isNull |-> FALSE, ids |-> <<42>>]
NFTSelections == {NullNFTs, EmptyNFTs, OneNFT}

\* routingContractsMap[src][dst]
routingContractsMap(src, dst) ==
  [erc721VaultAddress |-> <<"vault721", src, dst>>,
   erc1155VaultAddress |-> <<"vault1155", src, dst>>]

\* ---------------------------------------------------------------- state
VARIABLES
  \* ambient stores
  selectedToken, network, destNetwork, account, bridgeService, selectedNFTs,
  allApproved,
  \* component state
  bridgingStatus, bridging, approving, bridgeTxHash, approveTxHash,
  \* position and locals of the latest approve() and bridge() invocation
  apc, aloc, bpc, bloc,
  \* collaborators
  stalePause,   \* isBridgePaused() promises of earlier approve() calls, pending
  tracker,      \* pendingTransactions: the wait registered for each hash
  closure,      \* values captured by the .then callback of handleBridgeTxHash
  submitted,    \* transactions sent by the bridge services: <<kind, hash>>
  txStore,      \* bridgeTxService: <<address, record>> in order of addTxByAddress
  unhandled,    \* errors thrown where nothing catches them
  \* the clock Date.now() reads, and when each bridge hash was obtained
  now, submittedAt,
  \* bookkeeping
  nCalls, envChanges

stores == <<selectedToken, network, destNetwork, account, bridgeService,
            selectedNFTs, allApproved>>
flags == <<bridgingStatus, bridging, approving>>
hashes == <<bridgeTxHash, approveTxHash>>
aflow == <<apc, aloc>>
bflow == <<bpc, bloc>>
time == <<now, submittedAt>>
vars == <<stores, flags, hashes, aflow, bflow, stalePause, tracker, closure,
          submitted, txStore, unhandled, nCalls, envChanges, time>>

\* approve(): the call, its locals (type, the address read from the token's
\* map, tokenAddress, tokenIds, spenderAddress), the entry of `bridges` whose
\* approve it called, its isBridgePaused() promise, how it ended and the error
\* its catch block forwarded to handleBridgeError.
ALoc0 == [call |-> 0, type |-> "none", direct |-> "unread",
          tokenAddress |-> NoAddress,
          tokenIds |-> NullNFTs, spender |-> <<>>, service |-> "none",
          pause |-> "none", outcome |-> "none", error |-> "none"]
\* bridge(): the call, its locals (tokenIds, commonArgs.to), how it ended and
\* the error its catch block forwarded to handleBridgeError.
BLoc0 == [call |-> 0, tokenIds |-> NullNFTs, to |-> NoAddress,
          outcome |-> "none", error |-> "none"]
Closure0 == [currentChain |-> NoChain, destinationChain |-> NoChain,
             userAccount |-> NoAddress]

\* The step is mounted at the end of the wizard, with a token, both networks,
\* an account and an NFT chosen; the stores change from there (StoreChange).
Init ==
  /\ selectedToken = Token721
  /\ network = 1
  /\ destNetwork = 2
  /\ account = [defined |-> TRUE, address |-> "0xU1"]
  /\ bridgeService = TRUE
  /\ selectedNFTs = OneNFT
  /\ allApproved \in BOOLEAN
  /\ bridgingStatus = "pending"
  /\ bridging = FALSE
  /\ approving = FALSE
  /\ bridgeTxHash = 0
  /\ approveTxHash = 0
  /\ apc = "idle" /\ aloc = ALoc0
  /\ bpc = "idle" /\ bloc = BLoc0
  /\ stalePause = 0
  /\ tracker = [c \in Calls |-> "none"]
  /\ closure = [c \in Calls |-> Closure0]
  /\ submitted = {}
  /\ txStore = <<>>
  /\ unhandled = {}
  /\ now = 0
  /\ submittedAt = [c \in Calls |-> 0]
  /\ nCalls = 0
  /\ envChanges = 0

\* ---------------------------------------------------------------- caller
\* The Actions component is rendered only while bridgingStatus is not done.
ActionsShown == bridgingStatus # "done"

\* Controls that stay enabled while an approval is in flight.
ControlsEnabledWhileApproving == ActionsShown /\ ~bridging

\* Actions disables its controls while either flow is flagged in flight.
ControlsEnabled == ActionsShown /\ ~approving /\ ~bridging

ApproveEnabled == ControlsEnabled

\* The bridge control is offered once all tokens report approved.
BridgeEnabled == ControlsEnabled /\ allApproved

\* Actions sets approving, then calls approve().
ClickApprove ==
  /\ apc = "idle" /\ nCalls < MaxCalls
  /\ ApproveEnabled
  /\ nCalls' = nCalls + 1
  /\ approving' = TRUE
  /\ apc' = "called"
  /\ aloc' = [ALoc0 EXCEPT !.call = nCalls + 1]
  /\ stalePause' = stalePause + (IF aloc.pause = "pending" THEN 1 ELSE 0)
  /\ UNCHANGED <<stores, bridgingStatus, bridging, hashes, bflow, tracker,
                 closure, submitted, txStore, unhandled, envChanges, time>>

\* Actions clears approving once approve() has returned.
ApproveReturned ==
  /\ apc = "returned"
  /\ approving' = FALSE
  /\ apc' = "idle"
  /\ UNCHANGED <<stores, bridgingStatus, bridging, hashes, aloc, bflow,
                 stalePause, tracker, closure, submitted, txStore, unhandled,
                 nCalls, envChanges, time>>

\* ---------------------------------------------------------------- approve()
\* catch (err) { console.error(err); handleBridgeError(err) }
ApproveCatch(loc, kind) ==
  /\ aloc' = [loc EXCEPT !.outcome = "failed", !.error = kind]
  /\ apc' = "returned"

\* isBridgePaused().then(...) is started and not awaited; then the guard, and
\* getConnectedWallet($network.id) is called.
approve ==
  /\ apc = "called"
  /\ IF selectedToken = NoToken \/ network = NoChain \/ destNetwork = NoChain
     THEN /\ apc' = "returned"
          /\ aloc' = [aloc EXCEPT !.pause = "pending", !.outcome = "noop"]
     ELSE /\ apc' = "wallet"
          /\ aloc' = [aloc EXCEPT !.pause = "pending", !.outcome = "running",
                                  !.type = selectedToken.type]
  /\ UNCHANGED <<stores, flags, hashes, bflow, stalePause, tracker, closure,
                 submitted, txStore, unhandled, nCalls, envChanges, time>>

\* The then-callback of isBridgePaused() of the latest approve() call: when
\* the oracle reports paused it throws inside a promise nobody awaits.
PauseResolved ==
  /\ aloc.pause = "pending"
  /\ \E paused \in BOOLEAN :
       IF paused
       THEN /\ aloc' = [aloc EXCEPT !.pause = "paused"]
            /\ unhandled' = unhandled \cup {"BridgePaused"}
       ELSE /\ aloc' = [aloc EXCEPT !.pause = "clear"]
            /\ UNCHANGED unhandled
  /\ UNCHANGED <<stores, flags, hashes, apc, bflow, stalePause, tracker,
                 closure, submitted, txStore, nCalls, envChanges, time>>

\* The same callback for the promise of an earlier approve() call.
StalePauseResolved ==
  /\ stalePause > 0
  /\ stalePause' = stalePause - 1
  /\ \E paused \in BOOLEAN :
       unhandled' = IF paused THEN unhandled \cup {"BridgePaused"} ELSE unhandled
  /\ UNCHANGED <<stores, flags, hashes, aflow, bflow, tracker, closure,
                 submitted, txStore, nCalls, envChanges, time>>

\* Lines 110-121 with the spender taken from the ERC721 vault whatever the
\* token's type.
ApproveBuildArgsOneVault(loc, tokenAddress) ==
  IF tokenAddress = NoAddress
  THEN ApproveCatch(loc, "TokenAddressNotFound")
  ELSE IF network = NoChain \/ destNetwork = NoChain
  THEN ApproveCatch(loc, "TypeError")
  ELSE /\ aloc' = [loc EXCEPT
                     !.tokenAddress = tokenAddress,
                     !.tokenIds = selectedNFTs,
                     !.spender =
                        routingContractsMap(network, destNetwork).erc721VaultAddress,
                     !.service = loc.type]
       /\ apc' = "submit"

\* Lines 110-121: the token ids, the spender and the call of the bridge
\* service's approve for the token's type.
ApproveBuildArgs(loc, tokenAddress) ==
  IF tokenAddress = NoAddress
  THEN ApproveCatch(loc, "TokenAddressNotFound")
  ELSE IF network = NoChain \/ destNetwork = NoChain
  THEN ApproveCatch(loc, "TypeError")
  ELSE /\ aloc' = [loc EXCEPT
                     !.tokenAddress = tokenAddress,
                     !.tokenIds = selectedNFTs,
                     !.spender =
                        IF loc.type = "ERC1155"
                        THEN routingContractsMap(network, destNetwork).erc1155VaultAddress
                        ELSE routingContractsMap(network, destNetwork).erc721VaultAddress,
                     !.service = loc.type]
       /\ apc' = "submit"

\* getConnectedWallet settles; on success lines 99-121 run to the call of the
\* bridge service (the await of line 99 awaits a plain value). Line 99 reads
\* the token's address on the source chain through getAddress; were it falsy,
\* getCrossChainAddress would be called (lines 101-106).
ApproveWallet ==
  /\ apc = "wallet"
  /\ \/ ApproveCatch(aloc, "WalletError")
     \/ IF selectedToken = NoToken \/ network = NoChain
        THEN ApproveCatch(aloc, "TypeError")
        ELSE LET direct == selectedToken.addresses[network]
                 r == getAddress(direct)
                 loc == [aloc EXCEPT !.direct = direct]
             IN  IF ~r.ok
                 THEN ApproveCatch(loc, "InvalidAddress")
                 ELSE IF r.value = NoAddress
                 THEN IF destNetwork = NoChain
                      THEN ApproveCatch(loc, "TypeError")
                      ELSE apc' = "crosschain" /\ aloc' = loc
                 ELSE ApproveBuildArgs(loc, r.value)
  /\ UNCHANGED <<stores, flags, hashes, bflow, stalePause, tracker, closure,
                 submitted, txStore, unhandled, nCalls, envChanges, time>>

\* getCrossChainAddress settles (lines 102-109). Line 99 never yields a falsy
\* address, so this continuation is not reachable and is left out of Next.
ApproveCrossChain ==
  /\ apc = "crosschain"
  /\ \/ ApproveCatch(aloc, "ResolverError")
     \/ \E crossChainAddress \in {NoAddress, "0xCC"} :
          IF crossChainAddress = NoAddress
          THEN ApproveCatch(aloc, "CrossChainAddressNotFound")
          ELSE ApproveBuildArgs(aloc, crossChainAddress)
  /\ UNCHANGED <<stores, flags, hashes, bflow, stalePause, tracker, closure,
                 submitted, txStore, unhandled, nCalls, envChanges, time>>

\* bridges[type].approve(args) settles; with a hash: the info toast, and the
\* hash is registered with the pending-transaction tracker.
ApproveSubmit ==
  /\ apc = "submit"
  /\ \/ /\ ApproveCatch(aloc, "SendError")
        /\ UNCHANGED <<approveTxHash, submitted, tracker>>
     \/ /\ approveTxHash' = aloc.call
        /\ submitted' = submitted \cup {<<"approve", aloc.call>>}
        /\ IF network = NoChain \/ selectedToken = NoToken
           THEN ApproveCatch(aloc, "TypeError") /\ UNCHANGED tracker
           ELSE /\ tracker' = [tracker EXCEPT ![aloc.call] = "waiting"]
                /\ apc' = "wait"
                /\ UNCHANGED aloc
  /\ UNCHANGED <<stores, flags, bridgeTxHash, bflow, stalePause, closure,
                 txStore, unhandled, nCalls, envChanges, time>>

\* The wait for the approval hash not awaited: getTokenApprovalStatus is
\* called whether the tracker confirms or rejects.
ApproveConfirmedNotAwaited ==
  /\ apc = "wait"
  /\ tracker[aloc.call] = "waiting"
  /\ \E result \in {"failed", "confirmed"} :
       tracker' = [tracker EXCEPT ![aloc.call] = result]
  /\ apc' = "status"
  /\ UNCHANGED aloc
  /\ now' = now + 1
  /\ UNCHANGED <<stores, flags, hashes, bflow, stalePause, closure, submitted,
                 txStore, unhandled, nCalls, envChanges, submittedAt>>

\* await pendingTransactions.add(approveTxHash, $network.id) settles, some
\* time after the wait was registered; on confirmation
\* getTokenApprovalStatus($selectedToken) is called.
ApproveConfirmed ==
  /\ apc = "wait"
  /\ tracker[aloc.call] = "waiting"
  /\ \/ /\ tracker' = [tracker EXCEPT ![aloc.call] = "failed"]
        /\ ApproveCatch(aloc, "ConfirmError")
     \/ /\ tracker' = [tracker EXCEPT ![aloc.call] = "confirmed"]
        /\ apc' = "status"
        /\ UNCHANGED aloc
  /\ now' = now + 1
  /\ UNCHANGED <<stores, flags, hashes, bflow, stalePause, closure, submitted,
                 txStore, unhandled, nCalls, envChanges, submittedAt>>

\* getTokenApprovalStatus settles (it refreshes allApproved); then the success
\* toast, which reads $selectedToken.symbol.
ApproveStatus ==
  /\ apc = "status"
  /\ \/ ApproveCatch(aloc, "StatusError") /\ UNCHANGED allApproved
     \/ \E approved \in BOOLEAN :
          /\ allApproved' = approved
          /\ IF selectedToken = NoToken
             THEN ApproveCatch(aloc, "TypeError")
             ELSE /\ apc' = "returned"
                  /\ aloc' = [aloc EXCEPT !.outcome = "succeeded"]
  /\ UNCHANGED <<selectedToken, network, destNetwork, account, bridgeService,
                 selectedNFTs, flags, hashes, bflow, stalePause, tracker,
                 closure, submitted, txStore, unhandled, nCalls, envChanges, time>>

\* ---------------------------------------------------------------- bridge()
\* catch (err) { bridging = false; console.error(err); handleBridgeError(err) }
BridgeCatch(loc, kind) ==
  /\ bridging' = FALSE
  /\ bloc' = [loc EXCEPT !.outcome = "failed", !.error = kind]
  /\ bpc' = "idle"

\* What `!tokenIds` makes of `$selectedNFTs && $selectedNFTs.map(...)`: null
\* is falsy, an array (empty or not) is not.
tokenIdsMissing(nfts) == nfts.isNull

\* The click on the bridge control calls bridge(): the guard, bridging = true,
\* and getConnectedWallet($network.id) is called.
bridge ==
  /\ bpc = "idle" /\ nCalls < MaxCalls
  /\ BridgeEnabled
  /\ nCalls' = nCalls + 1
  /\ IF \/ ~bridgeService \/ selectedToken = NoToken \/ network = NoChain
        \/ destNetwork = NoChain \/ account.address = NoAddress
     THEN /\ bloc' = [BLoc0 EXCEPT !.call = nCalls + 1, !.outcome = "noop"]
          /\ UNCHANGED <<bridging, bpc>>
     ELSE /\ bridging' = TRUE
          /\ bpc' = "wallet"
          /\ bloc' = [BLoc0 EXCEPT !.call = nCalls + 1, !.outcome = "running"]
  /\ UNCHANGED <<stores, bridgingStatus, approving, hashes, aflow, stalePause,
                 tracker, closure, submitted, txStore, unhandled, envChanges, time>>

\* getConnectedWallet settles; on success lines 159-170: the common args, the
\* token ids, and getBridgeArgs is called.
BridgeWallet ==
  /\ bpc = "wallet"
  /\ \/ BridgeCatch(bloc, "WalletError")
     \/ \E recipientAddress \in {NoAddress, "0xR1"} :
          IF (recipientAddress = NoAddress /\ ~account.defined) \/ network = NoChain
          THEN BridgeCatch(bloc, "TypeError")
          ELSE IF tokenIdsMissing(selectedNFTs)
          THEN BridgeCatch([bloc EXCEPT !.tokenIds = selectedNFTs], "TokenIdsNotFound")
          ELSE /\ bloc' = [bloc EXCEPT
                             !.tokenIds = selectedNFTs,
                             !.to = IF recipientAddress # NoAddress
                                    THEN recipientAddress ELSE account.address]
               /\ bpc' = "args"
               /\ UNCHANGED bridging
  /\ UNCHANGED <<stores, bridgingStatus, approving, hashes, aflow, stalePause,
                 tracker, closure, submitted, txStore, unhandled, nCalls,
                 envChanges, time>>

\* getBridgeArgs settles; on success $bridgeService.bridge(args) is called.
BridgeArgs ==
  /\ bpc = "args"
  /\ \/ BridgeCatch(bloc, "ArgsError")
     \/ IF ~bridgeService
        THEN BridgeCatch(bloc, "TypeError")
        ELSE bpc' = "submit" /\ UNCHANGED <<bridging, bloc>>
  /\ UNCHANGED <<stores, bridgingStatus, approving, hashes, aflow, stalePause,
                 tracker, closure, submitted, txStore, unhandled, nCalls,
                 envChanges, time>>

\* The bridge transaction as the history store keeps it (lines 72-83), built
\* in the callback: Date.now() reads the clock as the callback finds it.
BridgeTx(txHash) ==
  [hash |-> txHash,
   from |-> account.address,
   srcChainId |-> closure[txHash].currentChain,
   destChainId |-> closure[txHash].destinationChain,
   tokenType |-> selectedToken.type,
   status |-> "NEW",
   timestamp |-> now']

\* How the latest bridge() call ended, noted when txHash is its hash.
Ended(txHash, how) ==
  IF bloc.call = txHash THEN [bloc EXCEPT !.outcome = how] ELSE bloc

\* handleBridgeTxHash persisting the record when it registers the wait, not
\* when the wait resolves.
handleBridgeTxHashPersistsEarly(txHash) ==
  IF network = NoChain \/ destNetwork = NoChain \/ account.address = NoAddress
  THEN /\ bloc' = Ended(txHash, "aborted")
       /\ UNCHANGED <<tracker, closure, bridgingStatus, bridging, txStore>>
  ELSE /\ tracker' = [tracker EXCEPT ![txHash] = "waiting"]
       /\ closure' = [closure EXCEPT ![txHash] =
                        [currentChain |-> network,
                         destinationChain |-> destNetwork,
                         userAccount |-> account.address]]
       /\ bloc' = Ended(txHash, "confirming")
       /\ txStore' = Append(txStore,
                       <<account.address,
                         [hash |-> txHash, from |-> account.address,
                          srcChainId |-> network, destChainId |-> destNetwork,
                          tokenType |-> selectedToken.type, status |-> "NEW",
                          timestamp |-> now]>>)
       /\ UNCHANGED <<bridgingStatus, bridging>>

\* handleBridgeTxHash setting bridgingStatus = 'done' outside the callback,
\* before the wait resolves.
handleBridgeTxHashDoneEarly(txHash) ==
  IF network = NoChain \/ destNetwork = NoChain \/ account.address = NoAddress
  THEN /\ bloc' = Ended(txHash, "aborted")
       /\ UNCHANGED <<tracker, closure, bridgingStatus, bridging, txStore>>
  ELSE /\ tracker' = [tracker EXCEPT ![txHash] = "waiting"]
       /\ closure' = [closure EXCEPT ![txHash] =
                        [currentChain |-> network,
                         destinationChain |-> destNetwork,
                         userAccount |-> account.address]]
       /\ bloc' = Ended(txHash, "confirming")
       /\ bridgingStatus' = "done"
       /\ UNCHANGED <<bridging, txStore>>

\* handleBridgeTxHash whose guard tests the two chain ids only, not the
\* sender address.
handleBridgeTxHashNoAccountGuard(txHash) ==
  IF network = NoChain \/ destNetwork = NoChain
  THEN /\ bloc' = Ended(txHash, "aborted")
       /\ UNCHANGED <<tracker, closure, bridgingStatus, bridging, txStore>>
  ELSE /\ tracker' = [tracker EXCEPT ![txHash] = "waiting"]
       /\ closure' = [closure EXCEPT ![txHash] =
                        [currentChain |-> network,
                         destinationChain |-> destNetwork,
                         userAccount |-> account.address]]
       /\ bloc' = Ended(txHash, "confirming")
       /\ UNCHANGED <<bridgingStatus, bridging, txStore>>

\* handleBridgeTxHash(txHash), up to its return: the three stores are read, and
\* unless one is missing the hash is registered with the tracker and the
\* callback is chained to the wait.
handleBridgeTxHash(txHash) ==
  IF network = NoChain \/ destNetwork = NoChain \/ account.address = NoAddress
  THEN /\ bloc' = Ended(txHash, "aborted")
       /\ UNCHANGED <<tracker, closure, bridgingStatus, bridging, txStore>>
  ELSE /\ tracker' = [tracker EXCEPT ![txHash] = "waiting"]
       /\ closure' = [closure EXCEPT ![txHash] =
                        [currentChain |-> network,
                         destinationChain |-> destNetwork,
                         userAccount |-> account.address]]
       /\ bloc' = Ended(txHash, "confirming")
       /\ UNCHANGED <<bridgingStatus, bridging, txStore>>

\* $bridgeService.bridge(args) settles: it rejects, or yields no hash, or
\* yields the hash, which is handed to handleBridgeTxHash.
BridgeSubmit ==
  /\ bpc = "submit"
  /\ \/ /\ BridgeCatch(bloc, "SendError")
        /\ UNCHANGED <<bridgeTxHash, submitted, tracker, closure,
                       bridgingStatus, txStore, submittedAt>>
     \/ /\ bridgeTxHash' = 0
        /\ bloc' = [bloc EXCEPT !.outcome = "nohash"]
        /\ bpc' = "idle"
        /\ UNCHANGED <<submitted, tracker, closure, bridgingStatus, bridging,
                       txStore, submittedAt>>
     \/ /\ bridgeTxHash' = bloc.call
        /\ submitted' = submitted \cup {<<"bridge", bloc.call>>}
        /\ submittedAt' = [submittedAt EXCEPT ![bloc.call] = now]
        /\ handleBridgeTxHash(bloc.call)
        /\ bpc' = "idle"
  /\ UNCHANGED <<stores, approving, approveTxHash, aflow, stalePause,
                 unhandled, nCalls, envChanges, now>>

\* The callback chained to the wait for txHash (lines 67-86). Reading
\* $account.address throws when the account store holds nothing; the callback
\* then ends after bridgingStatus = 'done', inside a promise nobody catches.
BridgeConfirmedCallback(txHash) ==
  /\ bridgingStatus' = "done"
  /\ IF ~account.defined
     THEN /\ unhandled' = unhandled \cup {"TypeError"}
          /\ bloc' = Ended(txHash, "threw")
          /\ UNCHANGED <<bridging, txStore>>
     ELSE /\ bridging' = FALSE
          /\ txStore' = Append(txStore, <<closure[txHash].userAccount, BridgeTx(txHash)>>)
          /\ bloc' = Ended(txHash, "done")
          /\ UNCHANGED unhandled

\* The tracker resolves the wait of a bridge hash, some time after the wait
\* was registered, and the callback runs.
BridgeConfirmed(txHash) ==
  /\ <<"bridge", txHash>> \in submitted
  /\ tracker[txHash] = "waiting"
  /\ tracker' = [tracker EXCEPT ![txHash] = "confirmed"]
  /\ now' = now + 1
  /\ BridgeConfirmedCallback(txHash)
  /\ UNCHANGED <<stores, approving, hashes, aflow, bpc, stalePause, closure,
                 submitted, nCalls, envChanges, submittedAt>>

\* The tracker rejects the wait of a bridge hash: the promise returned by
\* .then() rejects and nothing catches it.
BridgeWaitFailed(txHash) ==
  /\ <<"bridge", txHash>> \in submitted
  /\ tracker[txHash] = "waiting"
  /\ tracker' = [tracker EXCEPT ![txHash] = "failed"]
  /\ unhandled' = unhandled \cup {"ConfirmError"}
  /\ bloc' = Ended(txHash, "waitfailed")
  /\ now' = now + 1
  /\ UNCHANGED <<stores, flags, hashes, aflow, bpc, stalePause, closure,
                 submitted, txStore, nCalls, envChanges, submittedAt>>

\* ---------------------------------------------------------------- stores
\* The ambient stores are written by the rest of the application (wallet
\* events, the earlier wizard steps) between any two steps of the flows. A
\* change after the last flow has ended is read by nobody.
StoreChange ==
  /\ envChanges < MaxEnvChanges
  /\ \/ nCalls < MaxCalls \/ apc # "idle" \/ bpc # "idle"
     \/ \E h \in Calls : tracker[h] = "waiting"
  /\ envChanges' = envChanges + 1
  /\ \/ \E v \in (Tokens \cup {NoToken}) \ {selectedToken} :
          selectedToken' = v /\ UNCHANGED <<network, destNetwork, account,
                                            bridgeService, selectedNFTs, allApproved>>
     \/ \E v \in (ChainIds \cup {NoChain}) \ {network} :
          network' = v /\ UNCHANGED <<selectedToken, destNetwork, account,
                                      bridgeService, selectedNFTs, allApproved>>
     \/ \E v \in (ChainIds \cup {NoChain}) \ {destNetwork} :
          destNetwork' = v /\ UNCHANGED <<selectedToken, network, account,
                                          bridgeService, selectedNFTs, allApproved>>
     \/ \E v \in Accounts \ {account} :
          account' = v /\ UNCHANGED <<selectedToken, network, destNetwork,
                                      bridgeService, selectedNFTs, allApproved>>
     \/ bridgeService' = ~bridgeService
          /\ UNCHANGED <<selectedToken, network, destNetwork, account,
                         selectedNFTs, allApproved>>
     \/ \E v \in NFTSelections \ {selectedNFTs} :
          selectedNFTs' = v /\ UNCHANGED <<selectedToken, network, destNetwork,
                                           account, bridgeService, allApproved>>
     \/ allApproved' = ~allApproved
          /\ UNCHANGED <<selectedToken, network, destNetwork, account,
                         bridgeService, selectedNFTs>>
  /\ UNCHANGED <<flags, hashes, aflow, bflow, stalePause, tracker, closure,
                 submitted, txStore, unhandled, nCalls, time>>

\* ---------------------------------------------------------------- system
Next ==
  \/ ClickApprove
  \/ approve
  \/ PauseResolved
  \/ StalePauseResolved
  \/ ApproveWallet
  \/ ApproveSubmit
  \/ ApproveConfirmed
  \/ ApproveStatus
  \/ ApproveReturned
  \/ bridge
  \/ BridgeWallet
  \/ BridgeArgs
  \/ BridgeSubmit
  \/ \E h \in Calls : BridgeConfirmed(h)
  \/ \E h \in Calls : BridgeWaitFailed(h)
  \/ StoreChange

Spec == Init /\ [][Next]_vars

\* The event loop runs every continuation and callback of the bridge flow
\* whose promise has settled, and the promises that flow waits for settle.
LiveSpec ==
  /\ Spec
  /\ WF_vars(BridgeWallet)
  /\ WF_vars(BridgeArgs)
  /\ WF_vars(BridgeSubmit)
  /\ WF_vars(\E h \in Calls : BridgeConfirmed(h) \/ BridgeWaitFailed(h))

\* ---------------------------------------------------------------- claims
\* The records the history store holds for hash h.
RecordsOf(h) == {i \in 1..Len(txStore) : txStore[i][2].hash = h}

\* The latest approve() call has returned.
ApproveEnded == apc \in {"returned", "idle"} /\ aloc.outcome # "none"

\* C1: a record with hash h is in the transaction history store only once the
\* pending-transaction tracker has resolved the wait registered for h; no
\* record exists for a hash whose wait is unresolved or was never registered.
C1_RecordOnlyAfterConfirmation ==
  \A i \in 1..Len(txStore) : tracker[txStore[i][2].hash] = "confirmed"

C1_Witness ==
  \E h \in Calls : /\ <<"bridge", h>> \in submitted
                   /\ tracker[h] = "confirmed"
                   /\ RecordsOf(h) # {}

\* C2: every bridge() call whose hash the bridge service returned and the
\* tracker then confirmed has exactly one record in the transaction history
\* store: never none and never two.
C2_ExactlyOneRecordPerConfirmedBridge ==
  \A h \in Calls :
    (<<"bridge", h>> \in submitted /\ tracker[h] = "confirmed")
      => Cardinality(RecordsOf(h)) = 1

\* C3: approve() and bridge() are no-ops when a required precondition is
\* absent: the step that finds it absent changes none of approving, bridging,
\* bridgingStatus or the transaction history store and submits nothing, and
\* the call raises or reports no error.
C3_NoOpIsSilent ==
  /\ [](aloc.outcome = "noop" => (aloc.error = "none" /\ aloc.pause # "paused"))
  /\ [](bloc.outcome = "noop" => bloc.error = "none")
  /\ [][((aloc'.call # aloc.call \/ aloc'.outcome # aloc.outcome)
            /\ aloc'.outcome = "noop")
          => UNCHANGED <<flags, txStore, submitted>>]_vars
  /\ [][(bloc'.call # bloc.call /\ bloc'.outcome = "noop")
          => UNCHANGED <<flags, txStore, submitted>>]_vars

\* C4: after a failed bridge() (the signing handle provider, the args
\* builder, the submission or the confirmation wait failed) bridging is false
\* and the transaction history store holds no record for that attempt's hash.
C4_FailedBridgeClearsBridging ==
  bloc.outcome \in {"failed", "waitfailed"}
    => (~bridging /\ RecordsOf(bloc.call) = {})

\* C5: bridgingStatus starts as pending, becomes done only in a step in which
\* the tracker confirms a bridge transaction, and once done it is never set
\* back to pending (so pending -> done happens at most once).
C5_StatusDoneOnceOnConfirmation ==
  /\ bridgingStatus = "pending"
  /\ [][/\ bridgingStatus = "done" => bridgingStatus' = "done"
        /\ (bridgingStatus = "pending" /\ bridgingStatus' = "done")
             => \E h \in Calls : /\ <<"bridge", h>> \in submitted
                                 /\ tracker[h] = "waiting"
                                 /\ tracker'[h] = "confirmed"]_vars

C5_Witness == bridgingStatus = "done" /\ \E h \in Calls : tracker[h] = "confirmed"

C7_NoErrorEscapes == unhandled = {}

\* C8: once the pause oracle has reported paused to an approve() call, that
\* call has failed with BridgePaused; and approve() leaves the approving flag
\* as its caller set it.
C8_PausedApproveFails ==
  /\ aloc.pause = "paused"
       => (aloc.outcome = "failed" /\ aloc.error = "BridgePaused")
  /\ apc # "idle" => approving

\* C9: when the selected token has no address on the source chain and the
\* cross-chain resolver yields none, approve() fails with AddressNotFound and
\* submits no approval transaction.
C9_NoAddressFailsWithAddressNotFound ==
  (aloc.direct = NoAddress /\ aloc.tokenAddress = NoAddress /\ ApproveEnded)
    => /\ aloc.outcome = "failed"
       /\ aloc.error \in {"CrossChainAddressNotFound", "TokenAddressNotFound"}
       /\ <<"approve", aloc.call>> \notin submitted

\* C10: bridge() invoked with an empty selection of NFTs fails with
\* TokenIdsNotFound, submits no bridge transaction and leaves bridging false.
C10_EmptySelectionFails ==
  bloc.tokenIds = EmptyNFTs
    => /\ bloc.outcome = "failed" /\ bloc.error = "TokenIdsNotFound"
       /\ <<"bridge", bloc.call>> \notin submitted
       /\ ~bridging

\* C11: in the step in which approve() calls the bridge service's approve,
\* the spender it passes is the ERC1155 vault of the route from the source to
\* the destination chain when the token's type is ERC1155 and the ERC721
\* vault of that route otherwise, and the service called is the one for that
\* same type.
C11_SpenderMatchesTokenType ==
  [][(apc # "submit" /\ apc' = "submit")
       => /\ aloc'.type \in {"ERC721", "ERC1155"}
          /\ aloc'.service = aloc'.type
          /\ aloc'.spender = IF aloc'.type = "ERC1155"
                             THEN <<"vault1155", network, destNetwork>>
                             ELSE <<"vault721", network, destNetwork>>]_vars

C11_Witness ==
  /\ apc = "submit" /\ aloc.type = "ERC1155" /\ aloc.service = "ERC1155"
  /\ aloc.spender = <<"vault1155", 1, 2>>

\* C12: an approve() call to which the pause oracle has reported paused has
\* submitted no approval transaction, has registered nothing with the
\* pending-transaction tracker and has not emitted the success notification.
C12_PauseGuardsApproval ==
  aloc.pause = "paused"
    => /\ <<"approve", aloc.call>> \notin submitted
       /\ tracker[aloc.call] = "none"
       /\ aloc.outcome # "succeeded"

\* C13: the absence of a direct address for the source chain does not by
\* itself make approve() fail: a call that read no direct address goes on to
\* the cross-chain resolver, so it has not failed on the address it read.
C13_AbsentAddressFallsBackToResolver ==
  aloc.direct = NoAddress
    => ~(aloc.outcome = "failed" /\ aloc.error = "InvalidAddress")

\* C14: approve() runs its steps in order: the wait for the approval hash is
\* registered once the approval is submitted, the approval status is
\* re-queried only in the step in which the tracker confirms that hash, the
\* success notification follows the re-query, and a call that has failed
\* (at submission or at confirmation, among others) neither re-queries nor
\* notifies success afterwards.
C14_ApproveStepsOrdered ==
  [][/\ (apc # "wait" /\ apc' = "wait")
          => (apc = "submit" /\ <<"approve", aloc.call>> \in submitted')
     /\ (apc # "status" /\ apc' = "status")
          => /\ apc = "wait"
             /\ <<"approve", aloc.call>> \in submitted
             /\ tracker[aloc.call] = "waiting"
             /\ tracker'[aloc.call] = "confirmed"
     /\ (aloc.outcome # "succeeded" /\ aloc'.outcome = "succeeded")
          => (apc = "status" /\ tracker[aloc.call] = "confirmed")
     /\ (aloc.outcome = "failed" /\ aloc'.call = aloc.call)
          => (aloc'.outcome = "failed" /\ apc' \in {"returned", "idle"})]_vars

C14_Witness ==
  /\ aloc.outcome = "succeeded"
  /\ <<"approve", aloc.call>> \in submitted
  /\ tracker[aloc.call] = "confirmed"

\* C15: whenever the bridge service has returned a bridge hash and the
\* tracker has confirmed it, the orchestrator eventually is in the state
\* bridgingStatus = done with bridging = false, whatever the ambient stores
\* did while the flow was suspended.
C15_ConfirmingLeadsToDone ==
  \A h \in Calls :
    (<<"bridge", h>> \in submitted /\ tracker[h] = "confirmed")
      ~> (bridgingStatus = "done" /\ ~bridging)

\* C16: in the step in which the confirmation handler receives a bridge hash
\* while the source chain id, the destination chain id or the sender address
\* is missing, the hash is not registered with the tracker, no record is
\* appended, bridgingStatus stays pending and no error is raised or reported;
\* and nothing is registered or stored for that hash later.
C16_HandlerAbortsSilently ==
  /\ [][\A h \in Calls :
          (/\ <<"bridge", h>> \notin submitted
           /\ <<"bridge", h>> \in submitted'
           /\ (network = NoChain \/ destNetwork = NoChain
                  \/ account.address = NoAddress))
            => /\ tracker'[h] = "none"
               /\ txStore' = txStore
               /\ bridgingStatus' = "pending"
               /\ unhandled' = unhandled
               /\ bloc'.error = "none"]_vars
  /\ [](bloc.outcome = "aborted"
          => /\ tracker[bloc.call] = "none"
             /\ RecordsOf(bloc.call) = {}
             /\ bloc.error = "none")

C16_Witness ==
  /\ bloc.outcome = "aborted"
  /\ <<"bridge", bloc.call>> \in submitted
  /\ account.address = NoAddress
  /\ bridgingStatus = "pending"

\* C17: bridge() hands a bridge transaction to the bridge service only in a
\* state where allApproved is true.
C17_BridgeOnlyWhenApproved ==
  [][(bpc # "submit" /\ bpc' = "submit") => allApproved]_vars

\* C18: every record in the history store has status "new" and a timestamp
\* equal to the time at which its bridge hash was obtained.
C18_RecordStampedAtSubmission ==
  \A i \in 1..Len(txStore) :
    /\ txStore[i][2].status = "NEW"
    /\ txStore[i][2].timestamp = submittedAt[txStore[i][2].hash]

\* C19: every record of the history store is filed under its own sender: the
\* key it was added under is the record's `from`.
C19_RecordFiledUnderSender ==
  \A i \in 1..Len(txStore) : txStore[i][2].from = txStore[i][1]

\* C20: whenever bridgingStatus is done, the history store holds a record for
\* a confirmed bridge hash and bridging is false.
C20_DoneMeansPersisted ==
  bridgingStatus = "done"
    => /\ ~bridging
       /\ \E h \in Calls : /\ <<"bridge", h>> \in submitted
                            /\ tracker[h] = "confirmed"
                            /\ RecordsOf(h) # {}
====
